---- MODULE Spec2Model ----
(***************************************************************************)
(* Model of backend/grocery_backend_python.py: the WebSocket room registry *)
(* (rooms, rooms_lock), the broadcast relay (broadcast_to_room), the       *)
(* per-connection handler (websocket) and the sync/merge endpoints.        *)
(***************************************************************************)
EXTENDS Integers, Sequences, FiniteSets, TLC

----------------------------------------------------------------------------
(* Bounds of the model *)

NumConns == 2
NumRooms == 1
MaxClock == 2
MaxId == 2
MaxLen == 2

----------------------------------------------------------------------------
(* Identities *)

\* WebSocket connection handles (the ws objects); one handler thread each.
Conns == 1..NumConns
\* The thread serving an HTTP request.
HttpThreads == {NumConns + 1}
Threads == Conns \union HttpThreads
\* "nobody holds rooms_lock"
NoThread == 0
\* exclude_ws=None
NoConn == 0

\* share types and the tokens of the share_tokens table
ShareTypes == {"list", "recipe"}
Tokens == 1..NumRooms
\* room = f"{share_type}:{token}"
RoomName(share_type, token) == <<share_type, token>>
\* the room identifiers clients name in their messages
RoomIds == {RoomName("list", k) : k \in Tokens}

VARIABLES
    rooms,              \* the registry: a dict room -> set of connection handles
    rooms_lock,         \* the thread inside "with rooms_lock", or NoThread
    subscribed_rooms,   \* per session: the local set of the handler
    pc,                 \* per thread: its position in the handler
    call,               \* per thread: the frame of its broadcast_to_room call
    exitPath,           \* per session: why the receive loop was left, while
                        \* the disconnect cleanup is pending
    cleanups,           \* per session: how many times lines 141-146 ran
    resubscribed,       \* per session, a history: the rooms it subscribed to
                        \* again while they were in its subscribed_rooms
    app_data,           \* the data column of the app_data row
    updated_at,         \* the updated_at column of the app_data row
    clock,              \* datetime.utcnow()
    req,                \* per sync request: its inputs, what it loaded, its outcome
    initial,            \* the app_data row when the requests in flight began
    put,                \* per HTTP thread: the frame of its update_shared_item call
    merged,             \* a call of merge_lists / merge_recipes: inputs and result
    dmerge              \* a call of merge_data: inputs and result

wsVars == <<rooms, rooms_lock, subscribed_rooms, pc, call, exitPath, cleanups,
            resubscribed>>
syncVars == <<app_data, updated_at, clock, req, initial, put>>
mergeVars == <<merged, dmerge>>
vars == <<rooms, rooms_lock, subscribed_rooms, pc, call, exitPath, cleanups,
          resubscribed, app_data, updated_at, clock, req, initial, put, merged, dmerge>>

----------------------------------------------------------------------------
(* The registry, a dict: its keys are DOMAIN rooms *)

EmptyRegistry == [r \in {} |-> {}]

\* a mutant of RoomAdd: adding a handle that is in the room takes it out
RoomAddToggle(reg, room, ws) ==
    [r \in (DOMAIN reg) \union {room} |->
        IF r # room THEN reg[r]
        ELSE IF room \notin DOMAIN reg THEN {ws}
        ELSE IF ws \in reg[room] THEN reg[room] \ {ws}
        ELSE reg[room] \union {ws}]

\* rooms[room].add(ws) on a defaultdict(set): creates the entry when absent
RoomAdd(reg, room, ws) ==
    [r \in (DOMAIN reg) \union {room} |->
        IF r = room
        THEN (IF room \in DOMAIN reg THEN reg[room] ELSE {}) \union {ws}
        ELSE reg[r]]

\* a mutant of RoomDiscard: the handle is not taken out of the room
RoomDiscardNothing(reg, room, ws) == reg

\* rooms[room].discard(ws): the entry stays, also when it becomes empty
RoomDiscard(reg, room, ws) ==
    [r \in DOMAIN reg |-> IF r = room THEN reg[r] \ {ws} ELSE reg[r]]

\* a mutant of LeaveAll: prunes emptied rooms but forgets to discard the handle
LeaveAllNoDiscard(reg, left, ws) ==
    [r \in {x \in DOMAIN reg : ~(x \in left /\ reg[x] = {})} |-> reg[r]]

\* the disconnect loop: for room in subscribed_rooms: if room in rooms:
\* discard ws, and delete the entry when it became empty
LeaveAll(reg, left, ws) ==
    [r \in {x \in DOMAIN reg : ~(x \in left /\ reg[x] \ {ws} = {})} |->
        IF r \in left THEN reg[r] \ {ws} ELSE reg[r]]

\* a mutant of AfterMembershipTest: the room is looked up by rooms[room],
\* which on a defaultdict creates the missing entry
AfterIndexing(reg, room) ==
    [r \in (DOMAIN reg) \union {room} |-> IF r \in DOMAIN reg THEN reg[r] ELSE {}]

\* the registry after "room in rooms": the test creates no entry
AfterMembershipTest(reg, room) == reg

\* a mutant of LockFree: the lock is never waited for
LockIgnored == TRUE

\* "with rooms_lock:" can be entered
LockFree == rooms_lock = NoThread

----------------------------------------------------------------------------
(* broadcast_to_room *)

NoSends == [c \in Conns |-> 0]

\* the frame of a broadcast_to_room call; members, sent, failed and state
\* record what the call did
NoCall == [room |-> RoomName("list", 1), exclude |-> NoConn, todo |-> {},
           members |-> {}, sent |-> NoSends, failed |-> {}, state |-> "none"]

\* a mutant of ShouldSend: the sender is not skipped
ShouldSendAll(client, exclude_ws) == TRUE

\* if client != exclude_ws
ShouldSend(client, exclude_ws) == client # exclude_ws

\* a mutant of RestAfterSend: a failed send ends the loop
RestAfterSendAbort(todo, client, ok) == IF ok THEN todo \ {client} ELSE {}

\* the clients the for loop still has to visit after the send to client
\* returned or raised (the except clause only prints)
RestAfterSend(todo, client, ok) == todo \ {client}

\* where a thread continues after broadcast_to_room returned: a session at
\* its next receive; update_shared_item answers success and its thread is
\* free for the next request
AfterBroadcast(t) == IF t \in Conns THEN "recv" ELSE "idle"

\* with rooms_lock: if room in rooms: ... for client in rooms[room]
\* (when the room has no entry the with block is left at once)
BroadcastEnter(t) ==
    /\ pc[t] = "broadcast"
    /\ LockFree
    /\ IF call[t].room \in DOMAIN rooms
       THEN /\ rooms_lock' = t
            /\ pc' = [pc EXCEPT ![t] = "sending"]
            /\ call' = [call EXCEPT ![t].todo = rooms[call[t].room],
                                    ![t].members = rooms[call[t].room],
                                    ![t].state = "sending"]
       ELSE /\ rooms_lock' = rooms_lock
            /\ pc' = [pc EXCEPT ![t] = AfterBroadcast(t)]
            /\ call' = [call EXCEPT ![t] = NoCall]
    /\ rooms' = AfterMembershipTest(rooms, call[t].room)
    /\ UNCHANGED <<subscribed_rooms, exitPath, cleanups>>
    /\ UNCHANGED <<syncVars, mergeVars, resubscribed>>

\* one iteration of the for loop: client.send(msg) inside try/except
BroadcastSend(t) ==
    /\ pc[t] = "sending"
    /\ \E client \in call[t].todo :
        IF ShouldSend(client, call[t].exclude)
        THEN \E ok \in BOOLEAN :
                call' = [call EXCEPT
                    ![t].todo = RestAfterSend(call[t].todo, client, ok),
                    ![t].sent[client] = @ + 1,
                    ![t].failed = IF ok THEN @ ELSE @ \union {client}]
        ELSE call' = [call EXCEPT ![t].todo = @ \ {client}]
    /\ UNCHANGED <<rooms, rooms_lock, subscribed_rooms, pc, exitPath, cleanups>>
    /\ UNCHANGED <<syncVars, mergeVars, resubscribed>>

\* the loop is over: leave the with block and return to the caller, the
\* session to its next receive, the request to its response
BroadcastReturn(t) ==
    /\ pc[t] = "sending"
    /\ call[t].todo = {}
    /\ rooms_lock' = NoThread
    /\ pc' = [pc EXCEPT ![t] = AfterBroadcast(t)]
    /\ call' = [call EXCEPT ![t] = NoCall]
    /\ UNCHANGED <<rooms, subscribed_rooms, exitPath, cleanups>>
    /\ UNCHANGED <<syncVars, mergeVars, resubscribed>>

----------------------------------------------------------------------------
(* websocket(ws): the handler of one connection.  One action per outcome  *)
(* of ws.receive() and per kind of message; each runs the loop body up to  *)
(* the next ws.receive(), the break, or the call of broadcast_to_room.     *)

\* a client connects: subscribed_rooms = set()
Connect(c) ==
    /\ pc[c] = "idle"
    /\ pc' = [pc EXCEPT ![c] = "recv"]
    /\ UNCHANGED <<rooms, rooms_lock, subscribed_rooms, call, exitPath, cleanups>>
    /\ UNCHANGED <<syncVars, mergeVars, resubscribed>>

\* leave the while loop by break
Break(c, path) ==
    /\ pc' = [pc EXCEPT ![c] = "closing"]
    /\ exitPath' = [exitPath EXCEPT ![c] = path]
    /\ UNCHANGED <<rooms, rooms_lock, subscribed_rooms, call, cleanups>>
    /\ UNCHANGED <<syncVars, mergeVars, resubscribed>>

\* message = ws.receive() returned None
RecvNone(c) ==
    /\ pc[c] = "recv"
    /\ Break(c, "eof")

\* ws.receive() raised (the transport failed or the peer closed)
RecvError(c) ==
    /\ pc[c] = "recv"
    /\ Break(c, "receive_error")

\* json.loads raised JSONDecodeError: printed, the loop goes on
RecvInvalidJson(c) ==
    /\ pc[c] = "recv"
    /\ UNCHANGED vars

\* valid JSON that is no object (a list, string, number, null):
\* data.get raises AttributeError, caught by "except Exception", break
RecvNonObject(c) ==
    /\ pc[c] = "recv"
    /\ Break(c, "non_object")

\* an object whose type is absent or none of the three: no branch is taken
RecvNoType(c) ==
    /\ pc[c] = "recv"
    /\ UNCHANGED vars

\* a subscribe/unsubscribe/update whose data is no object:
\* data.get('data', {}).get raises AttributeError, break
RecvBadData(c) ==
    /\ pc[c] = "recv"
    /\ Break(c, "bad_data")

\* data.get('data', {}).get('room') of a message without room: None
NoRoom == <<"", 0>>

\* lines 114-119, what the subscribe branch does to the program's state
Subscribe(c, room) ==
    /\ pc[c] = "recv"
    /\ LockFree
    /\ rooms' = RoomAdd(rooms, room, c)
    /\ subscribed_rooms' = [subscribed_rooms EXCEPT ![c] = @ \union {room}]
    /\ UNCHANGED <<rooms_lock, pc, call, exitPath, cleanups>>
    /\ UNCHANGED <<syncVars, mergeVars>>

\* {type: subscribe, data: {room}}
RecvSubscribe(c, room) ==
    /\ Subscribe(c, room)
    /\ UNCHANGED resubscribed

\* {type: subscribe, data: {room}}, the history noting a repeated subscribe
RecvSubscribeLogged(c, room) ==
    /\ Subscribe(c, room)
    /\ resubscribed' =
            [resubscribed EXCEPT ![c] =
                IF room \in subscribed_rooms[c] THEN @ \union {room} ELSE @]

\* lines 121-126, what the unsubscribe branch does to the program's state
Unsubscribe(c, room) ==
    /\ pc[c] = "recv"
    /\ LockFree
    /\ IF room \in DOMAIN rooms
       THEN /\ rooms' = RoomDiscard(rooms, room, c)
            /\ subscribed_rooms' = [subscribed_rooms EXCEPT ![c] = @ \ {room}]
       ELSE UNCHANGED <<rooms, subscribed_rooms>>
    /\ UNCHANGED <<rooms_lock, pc, call, exitPath, cleanups>>
    /\ UNCHANGED <<syncVars, mergeVars>>

\* {type: unsubscribe, data: {room}}
RecvUnsubscribe(c, room) ==
    /\ Unsubscribe(c, room)
    /\ UNCHANGED resubscribed

\* {type: unsubscribe, data: {room}}, the history forgetting the room left
RecvUnsubscribeLogged(c, room) ==
    /\ Unsubscribe(c, room)
    /\ resubscribed' =
            [resubscribed EXCEPT ![c] =
                IF room \in DOMAIN rooms THEN @ \ {room} ELSE @]

\* the test that lets an update through: if room in rooms
UpdateForwarded(c, room) == room \in DOMAIN rooms

\* {type: update, data: {room, payload}}
RecvUpdate(c, room) ==
    /\ pc[c] = "recv"
    /\ IF UpdateForwarded(c, room)
       THEN /\ pc' = [pc EXCEPT ![c] = "broadcast"]
            /\ call' = [call EXCEPT ![c] =
                            [NoCall EXCEPT !.room = room, !.exclude = c,
                                           !.state = "called"]]
       ELSE UNCHANGED <<pc, call>>
    /\ UNCHANGED <<rooms, rooms_lock, subscribed_rooms, exitPath, cleanups>>
    /\ UNCHANGED <<syncVars, mergeVars, resubscribed>>

\* after the loop: with rooms_lock: leave every room of subscribed_rooms
Cleanup(c) ==
    /\ pc[c] = "closing"
    /\ LockFree
    /\ rooms' = LeaveAll(rooms, subscribed_rooms[c], c)
    /\ cleanups' = [cleanups EXCEPT ![c] = @ + 1]
    /\ pc' = [pc EXCEPT ![c] = "closed"]
    /\ exitPath' = [exitPath EXCEPT ![c] = "none"]
    /\ UNCHANGED <<rooms_lock, subscribed_rooms, call>>
    /\ UNCHANGED <<syncVars, mergeVars, resubscribed>>

----------------------------------------------------------------------------
(* Timestamps.  An ISO string is modelled by the instant it parses to, a    *)
(* number >= 0 on one time line; the two values below stand for the strings *)
(* that parse to nothing.                                                   *)

\* the key is missing, None or '': "not x" holds, fromisoformat('') raises
Absent == -1
\* a non-empty string datetime.fromisoformat rejects with ValueError
Unparseable == -2
\* datetime.fromisoformat(t) returns
IsTime(t) == t >= 0

----------------------------------------------------------------------------
(* merge_lists, merge_recipes: a dict keyed by id, in insertion order *)

DictHas(d, id) == \E i \in 1..Len(d) : d[i].id = id
DictGet(d, id) == d[CHOOSE i \in 1..Len(d) : d[i].id = id]
\* a mutant of DictPut: an overwritten key moves to the end
DictPutMoveToEnd(d, rec) ==
    Append(SelectSeq(d, LAMBDA x : x.id # rec.id), rec)

\* merged[rec['id']] = rec: a known key keeps its place, a new one goes last
DictPut(d, rec) ==
    IF DictHas(d, rec.id)
    THEN [i \in 1..Len(d) |-> IF d[i].id = rec.id THEN rec ELSE d[i]]
    ELSE Append(d, rec)

\* a mutant of ClientWins: a tie keeps the record already in the dict
ClientWinsStrict(client_t, existing_t) == client_t > existing_t

\* fromisoformat(lst.updatedAt) >= fromisoformat(existing.updatedAt)
ClientWins(client_t, existing_t) == client_t >= existing_t

\* for lst in server_lists: merged[lst['id']] = lst
RECURSIVE FromServer(_, _)
FromServer(server, d) ==
    IF server = <<>> THEN d
    ELSE FromServer(Tail(server), DictPut(d, Head(server)))

\* the body of the loop over the client's records; ok = FALSE when
\* fromisoformat raised ValueError
MergeOne(d, lst) ==
    IF ~DictHas(d, lst.id)
    THEN [ok |-> TRUE, val |-> DictPut(d, lst)]
    ELSE IF ~IsTime(lst.updatedAt) \/ ~IsTime(DictGet(d, lst.id).updatedAt)
    THEN [ok |-> FALSE, val |-> d]
    ELSE IF ClientWins(lst.updatedAt, DictGet(d, lst.id).updatedAt)
    THEN [ok |-> TRUE, val |-> DictPut(d, lst)]
    ELSE [ok |-> TRUE, val |-> d]

\* for lst in client_lists: ...
RECURSIVE FromClient(_, _)
FromClient(client, acc) ==
    IF client = <<>> \/ ~acc.ok THEN acc
    ELSE FromClient(Tail(client), MergeOne(acc.val, Head(client)))

merge_lists(server_lists, client_lists) ==
    FromClient(client_lists, [ok |-> TRUE, val |-> FromServer(server_lists, <<>>)])

merge_recipes(server_recipes, client_recipes) ==
    FromClient(client_recipes,
               [ok |-> TRUE, val |-> FromServer(server_recipes, <<>>)])

----------------------------------------------------------------------------
(* merge_data *)

HistoryCap == 500

\* list(dict.fromkeys(seq)): the first occurrence of each entry, in order
Dedup(seq) ==
    LET at == [i \in 1..Len(seq) |-> <<i, seq[i]>>]
        First(p) == \A j \in 1..(p[1] - 1) : seq[j] # p[2]
        kept == SelectSeq(at, First)
    IN  [k \in 1..Len(kept) |-> kept[k][2]]

\* a mutant of LastN: the head is kept, seq[:n]
FirstN(seq, n) ==
    IF Len(seq) <= n THEN seq ELSE SubSeq(seq, 1, n)

\* seq[-n:]
LastN(seq, n) ==
    IF Len(seq) <= n THEN seq ELSE SubSeq(seq, Len(seq) - n + 1, Len(seq))

\* the categories key: absent, or present with a list
NoCategories == [has |-> FALSE, val |-> <<>>]

\* a document: the JSON object of the data column.  null marks the JSON null
\* that a request without "data" stores
NullDoc == [lists |-> <<>>, recipes |-> <<>>, categories |-> NoCategories,
            itemHistory |-> <<>>, lastSynced |-> Absent, null |-> TRUE]

\* default_data of init_db, the categories standing for the ten defaults
DefaultData == [lists |-> <<>>, recipes |-> <<>>,
                categories |-> [has |-> TRUE, val |-> <<"fruit">>],
                itemHistory |-> <<>>, lastSynced |-> Absent, null |-> FALSE]

\* ok = FALSE: an exception left merge_data (client_data is None, or a
\* timestamp did not parse)
merge_data(server_data, client_data, now) ==
    LET ls == merge_lists(server_data.lists, client_data.lists)
        rs == merge_recipes(server_data.recipes, client_data.recipes)
    IN  IF client_data.null \/ ~ls.ok \/ ~rs.ok
        THEN [ok |-> FALSE, doc |-> NullDoc]
        ELSE [ok |-> TRUE,
              doc |-> [lists |-> ls.val,
                       recipes |-> rs.val,
                       categories |->
                            IF client_data.categories.has
                            THEN client_data.categories
                            ELSE IF server_data.categories.has
                            THEN server_data.categories
                            ELSE [has |-> TRUE, val |-> <<>>],
                       itemHistory |->
                            LastN(Dedup(server_data.itemHistory
                                            \o client_data.itemHistory),
                                  HistoryCap),
                       lastSynced |-> now,
                       null |-> FALSE]]

----------------------------------------------------------------------------
(* sync_data *)

\* a mutant of ServerUnchanged: equal timestamps count as a server change
ServerUnchangedStrict(server_updated_at, last_synced) ==
    server_updated_at < last_synced

\* fromisoformat(server_updated_at) <= fromisoformat(last_synced)
ServerUnchanged(server_updated_at, last_synced) ==
    server_updated_at <= last_synced

\* which arm of the "Merge logic" if/elif/else is taken
SyncBranch(server_data, server_updated_at, client_data, last_synced) ==
    IF server_data.null \/ ~IsTime(server_updated_at) THEN "client"
    ELSE IF last_synced = Absent THEN "client"
    ELSE IF last_synced = Unparseable THEN "error"
    ELSE IF ServerUnchanged(server_updated_at, last_synced) THEN "client"
    ELSE "merge"

\* merged_data, or ok = FALSE when the request ends in the except clause
SyncMerged(server_data, server_updated_at, client_data, last_synced, now) ==
    LET branch == SyncBranch(server_data, server_updated_at, client_data,
                             last_synced)
    IN  IF branch = "client" THEN [ok |-> TRUE, doc |-> client_data]
        ELSE IF branch = "error" THEN [ok |-> FALSE, doc |-> NullDoc]
        ELSE merge_data(server_data, client_data, now)

\* the time of init_db's INSERT
InitTime == 1

\* a thread that serves no sync request has no frame
NoReq == [phase |-> "idle"]

\* the frame of a request that read its body and the row; the other fields
\* record what the request answers and stores
LoadedReq(client_data, last_synced, server_data, server_updated_at) ==
    [phase |-> "loaded", client_data |-> client_data,
     last_synced |-> last_synced, server_data |-> server_data,
     server_updated_at |-> server_updated_at,
     branch |-> "none", ok |-> FALSE, response |-> NullDoc,
     saved |-> FALSE, stored |-> NullDoc]

\* the two threads serving POST /api/sync
SyncThreads == {1, 2}

\* lines 181-192: read the body, SELECT the row
SyncLoad(h, client_data, last_synced) ==
    /\ req[h].phase = "idle"
    /\ req' = [req EXCEPT ![h] =
                LoadedReq(client_data, last_synced, app_data, updated_at)]
    /\ UNCHANGED <<app_data, updated_at, clock, initial, put>>
    /\ UNCHANGED <<wsVars, mergeVars>>

\* lines 194-217: merge, UPDATE the row and answer; an exception answers 500
\* and leaves the row alone
SyncSave(h) ==
    /\ req[h].phase = "loaded"
    /\ LET r == req[h]
           m == SyncMerged(r.server_data, r.server_updated_at,
                           r.client_data, r.last_synced, clock)
           branch == SyncBranch(r.server_data, r.server_updated_at,
                                r.client_data, r.last_synced)
       IN  /\ req' = [req EXCEPT ![h].phase = "done",
                                 ![h].branch = branch,
                                 ![h].ok = m.ok,
                                 ![h].response = m.doc,
                                 ![h].saved = m.ok,
                                 ![h].stored = m.doc]
           /\ app_data' = IF m.ok THEN m.doc ELSE app_data
           /\ updated_at' = IF m.ok THEN clock ELSE updated_at
    /\ UNCHANGED <<clock, initial, put>>
    /\ UNCHANGED <<wsVars, mergeVars>>

\* the response is sent; the thread is free for the next request
SyncReturn(h) ==
    /\ req[h].phase = "done"
    /\ req' = [req EXCEPT ![h] = NoReq]
    /\ UNCHANGED <<app_data, updated_at, clock, initial, put>>
    /\ UNCHANGED <<wsVars, mergeVars>>

\* time passes
Tick ==
    /\ clock < MaxClock
    /\ clock' = clock + 1
    /\ UNCHANGED <<app_data, updated_at, req, initial, put>>
    /\ UNCHANGED <<wsVars, mergeVars>>

----------------------------------------------------------------------------
(* update_shared_item *)

\* the share_tokens table after generate_share was called for the lists
\* 1..NumRooms: token k shares the list with id k
share_tokens == [k \in Tokens |-> [type |-> "list", item_id |-> k]]

\* SELECT item_id FROM share_tokens WHERE token = ? AND type = ? finds a row
Resolves(share_type, token) ==
    token \in DOMAIN share_tokens /\ share_tokens[token].type = share_type

\* body.get('data') of a request without "data"
NoItem == [null |-> TRUE, val |-> [id |-> 0, updatedAt |-> Absent, v |-> 0]]

\* app_data[collection_key] of a loaded document
Collection(doc, share_type) ==
    IF share_type = "list" THEN doc.lists ELSE doc.recipes

\* a mutant of UpdatedCollection: the replacement keeps the id of the body
UpdatedCollectionBodyId(collection, item_id, updated_item) ==
    [i \in 1..Len(collection) |->
        IF collection[i].id = item_id THEN updated_item.val ELSE collection[i]]

\* {**updated_item, 'id': item_id} if item['id'] == item_id else item
\* for item in collection
UpdatedCollection(collection, item_id, updated_item) ==
    [i \in 1..Len(collection) |->
        IF collection[i].id = item_id
        THEN [updated_item.val EXCEPT !.id = item_id]
        ELSE collection[i]]

\* the comprehension raises TypeError: the document is null, or an item
\* matches and updated_item is None
UpdateRaises(doc, share_type, item_id, updated_item) ==
    \/ doc.null
    \/ /\ updated_item.null
       /\ DictHas(Collection(doc, share_type), item_id)

\* a thread outside lines 300-339 has no frame; found is kept for the answer
NoPut == [found |-> FALSE]

\* lines 300-325: read the body, look the token up, SELECT the app_data
\* row; when no share_tokens row is found the request is answered 404 and
\* the thread is free again
UpdateLoad(h, share_type, token, updated_item) ==
    /\ pc[h] = "idle"
    /\ IF Resolves(share_type, token)
       THEN /\ pc' = [pc EXCEPT ![h] = "loaded"]
            /\ put' = [put EXCEPT ![h] =
                        [share_type |-> share_type, token |-> token,
                         item_id |-> share_tokens[token].item_id,
                         updated_item |-> updated_item,
                         app_data |-> app_data,
                         found |-> FALSE]]
       ELSE /\ pc' = pc
            /\ put' = [put EXCEPT ![h] = NoPut]
    /\ UNCHANGED <<app_data, updated_at, clock, req, initial>>
    /\ UNCHANGED <<rooms, rooms_lock, subscribed_rooms, call, exitPath, cleanups>>
    /\ UNCHANGED <<mergeVars, resubscribed>>

\* lines 326-347: replace the item, UPDATE the row, call broadcast_to_room
\* with no exclude_ws, after which success is answered; an exception answers
\* 500, leaves the row alone and frees the thread.
\* found records whether the item id was in the loaded collection
UpdateSave(h) ==
    /\ pc[h] = "loaded"
    /\ LET p == put[h]
           collection == Collection(p.app_data, p.share_type)
       IN  IF UpdateRaises(p.app_data, p.share_type, p.item_id, p.updated_item)
           THEN /\ pc' = [pc EXCEPT ![h] = "idle"]
                /\ put' = [put EXCEPT ![h] = NoPut]
                /\ UNCHANGED <<app_data, updated_at, call>>
           ELSE /\ app_data' =
                    IF p.share_type = "list"
                    THEN [p.app_data EXCEPT !.lists =
                            UpdatedCollection(collection, p.item_id, p.updated_item)]
                    ELSE [p.app_data EXCEPT !.recipes =
                            UpdatedCollection(collection, p.item_id, p.updated_item)]
                /\ updated_at' = clock
                /\ pc' = [pc EXCEPT ![h] = "broadcast"]
                /\ call' = [call EXCEPT ![h] =
                                [NoCall EXCEPT
                                    !.room = RoomName(p.share_type, p.token),
                                    !.state = "called"]]
                /\ put' = [put EXCEPT ![h] =
                            [NoPut EXCEPT !.found = DictHas(collection, p.item_id)]]
    /\ UNCHANGED <<clock, req, initial>>
    /\ UNCHANGED <<rooms, rooms_lock, subscribed_rooms, exitPath, cleanups>>
    /\ UNCHANGED <<mergeVars, resubscribed>>

----------------------------------------------------------------------------
(* The inputs *)

\* the body of a PUT /api/share request: an item whose own id is not the
\* shared one but another list's
SharedItem ==
    [null |-> FALSE, val |-> [id |-> MaxId, updatedAt |-> MaxClock, v |-> 0]]
\* the bodies with and without "data"
SharedItems == {NoItem, SharedItem}

Ids == 1..MaxId
Times == 0..MaxClock

\* what a client can send as a list or a recipe: an early or a late
\* updatedAt, and v to tell the versions of a record apart
Records(v) == [id : Ids, updatedAt : {0, MaxClock}, v : {v}]

\* the documents sync request h submits: no "data" at all, or a document
\* with at most one list, or with one recipe
ClientDocs(h) ==
    {NullDoc}
    \union {[DefaultData EXCEPT !.lists = l] :
                l \in {<<>>} \union {<<r>> : r \in Records(h)}}
    \union {[DefaultData EXCEPT !.recipes =
                                    <<[id |-> 1, updatedAt |-> 0, v |-> h]>>]}
LastSynceds == {Absent, Unparseable} \union Times

\* the arguments of merge_lists: lists of at most MaxLen records with
\* distinct ids, whose updatedAt may be missing
MergeRecords(v) == [id : Ids, updatedAt : {Absent} \union Times, v : {v}]
RECURSIVE ListsUpTo(_, _)
ListsUpTo(n, v) ==
    IF n = 0 THEN {<<>>}
    ELSE LET shorter == ListsUpTo(n - 1, v)
         IN  shorter \union
             {Append(l, r) : l \in {x \in shorter : Len(x) = n - 1},
                             r \in MergeRecords(v)}
DistinctIds(l) == \A i, j \in 1..Len(l) : l[i].id = l[j].id => i = j
MergeInputs(v) == {l \in ListsUpTo(MaxLen, v) : DistinctIds(l)}

NoMerge == [fn |-> "none", server |-> <<>>, client |-> <<>>,
            result |-> [ok |-> FALSE, val |-> <<>>]]

CallMergeLists ==
    /\ merged.fn = "none"
    /\ merged' = [merged EXCEPT !.fn = "merge_lists",
                    !.result = merge_lists(merged.server, merged.client)]
    /\ UNCHANGED <<wsVars, syncVars, dmerge>>

CallMergeRecipes ==
    /\ merged.fn = "none"
    /\ merged' = [merged EXCEPT !.fn = "merge_recipes",
                    !.result = merge_recipes(merged.server, merged.client)]
    /\ UNCHANGED <<wsVars, syncVars, dmerge>>

\* the arguments of merge_data.  An itemHistory entry, a string, is modelled
\* by a number; Hist(a, b) is the history of the entries a..b in that order
Hist(a, b) == [i \in 1..(b - a + 1) |-> a + i - 1]

\* the histories of a stored document: empty, short, one entry below the
\* cap and at the cap
ServerHistories ==
    {<<>>} \union {Hist(1, n) : n \in {MaxLen, HistoryCap - 1, HistoryCap}}

\* the histories a client submits: empty, entries the server has (also twice),
\* entries it has not, and the last server entry followed by new ones
ClientHistories ==
    {<<>>, <<1>>, <<2, 1, 2>>}
    \union {Hist(HistoryCap + 1, HistoryCap + n) : n \in 1..MaxLen}
    \union {Hist(HistoryCap, HistoryCap + n) : n \in 1..MaxLen}

\* the categories key of a request: missing, an empty list, a list
ClientCategories ==
    {NoCategories, [has |-> TRUE, val |-> <<>>], [has |-> TRUE, val |-> <<"veg">>]}

DataServerDocs ==
    {[DefaultData EXCEPT !.itemHistory = h, !.categories = c] :
        h \in ServerHistories,
        c \in {DefaultData.categories, NoCategories}}

DataClientDocs ==
    {[DefaultData EXCEPT !.itemHistory = h, !.categories = c] :
        h \in ClientHistories, c \in ClientCategories}

\* no call of merge_data
NoDataMerge == [called |-> FALSE]

\* the arguments of a call that has not run yet
DataMergeOf(server, client) ==
    [called |-> FALSE, server |-> server, client |-> client,
     result |-> [ok |-> FALSE, doc |-> NullDoc]]

CallMergeData ==
    /\ ~dmerge.called
    /\ dmerge' = [dmerge EXCEPT !.called = TRUE,
                    !.result = merge_data(dmerge.server, dmerge.client, clock)]
    /\ UNCHANGED <<wsVars, syncVars, merged>>

----------------------------------------------------------------------------

WsInit ==
    /\ rooms = EmptyRegistry
    /\ rooms_lock = NoThread
    /\ subscribed_rooms = [c \in Conns |-> {}]
    /\ pc = [t \in Threads |-> "idle"]
    /\ call = [t \in Threads |-> NoCall]
    /\ exitPath = [c \in Conns |-> "none"]
    /\ cleanups = [c \in Conns |-> 0]
    /\ resubscribed = [c \in Conns |-> {}]

\* the row init_db inserts
StoreInit ==
    /\ app_data = DefaultData
    /\ updated_at = InitTime
    /\ clock = InitTime
    /\ req = [h \in SyncThreads |-> NoReq]
    /\ initial = [data |-> DefaultData, updated_at |-> InitTime]
    /\ put = [h \in HttpThreads |-> NoPut]

Init ==
    /\ WsInit
    /\ StoreInit
    /\ merged = NoMerge
    /\ dmerge = NoDataMerge

Next ==
    \/ \E c \in Conns : Connect(c)
    \/ \E c \in Conns : RecvNone(c)
    \/ \E c \in Conns : RecvError(c)
    \/ \E c \in Conns : RecvInvalidJson(c)
    \/ \E c \in Conns : RecvNonObject(c)
    \/ \E c \in Conns : RecvNoType(c)
    \/ \E c \in Conns : RecvBadData(c)
    \/ \E c \in Conns, room \in RoomIds : RecvSubscribe(c, room)
    \/ \E c \in Conns, room \in RoomIds : RecvUnsubscribe(c, room)
    \/ \E c \in Conns, room \in RoomIds : RecvUpdate(c, room)
    \/ \E c \in Conns : Cleanup(c)
    \/ \E t \in Threads : BroadcastEnter(t)
    \/ \E t \in Threads : BroadcastSend(t)
    \/ \E t \in Threads : BroadcastReturn(t)
    \/ \E h \in HttpThreads, share_type \in ShareTypes, token \in Tokens :
            UpdateLoad(h, share_type, token, SharedItem)
    \/ \E h \in HttpThreads : UpdateSave(h)

Spec == Init /\ [][Next]_vars

\* the sync endpoint: two requests that may overlap, on a row that earlier
\* requests left
StoredDocs ==
    {DefaultData, NullDoc,
     [DefaultData EXCEPT !.lists = <<[id |-> 1, updatedAt |-> 0, v |-> 1]>>]}

InitSync ==
    /\ WsInit
    /\ merged = NoMerge
    /\ dmerge = NoDataMerge
    /\ app_data \in StoredDocs
    /\ updated_at = InitTime
    /\ clock = InitTime
    /\ req = [h \in SyncThreads |-> NoReq]
    /\ initial = [data |-> app_data, updated_at |-> updated_at]
    /\ put = [h \in HttpThreads |-> NoPut]

NextSync ==
    \/ \E h \in SyncThreads : \E d \in ClientDocs(h), ls \in LastSynceds :
            SyncLoad(h, d, ls)
    \/ \E h \in SyncThreads : SyncSave(h)
    \/ Tick

SpecSync == InitSync /\ [][NextSync]_vars

\* merge_lists and merge_recipes as functions of their arguments
InitMerge ==
    /\ WsInit
    /\ StoreInit
    /\ dmerge = NoDataMerge
    /\ \E server \in MergeInputs("server"), client \in MergeInputs("client") :
            merged = [NoMerge EXCEPT !.server = server, !.client = client]

NextMerge ==
    \/ CallMergeLists
    \/ CallMergeRecipes

SpecMerge == InitMerge /\ [][NextMerge]_vars

\* the store under requests that follow and overlap one another: syncs,
\* updates of shared items and the broadcasts these make, to the sessions
\* that subscribed before.  The lists submitted: none, list 1 in an early and
\* in a late version, and another list followed by the early list 1
ShareLists ==
    {<<>>,
     <<[id |-> 1, updatedAt |-> 0, v |-> 1]>>,
     <<[id |-> 1, updatedAt |-> MaxClock, v |-> 1]>>,
     <<[id |-> MaxId, updatedAt |-> 0, v |-> 1],
       [id |-> 1, updatedAt |-> 0, v |-> 1]>>}
ShareClientDocs == {[DefaultData EXCEPT !.lists = l] : l \in ShareLists}
\* lastSynced missing, or older than the row
ShareLastSynceds == {Absent, 0}

\* the thread serving POST /api/sync
ShareSyncThreads == {1}

\* the sessions that are subscribed to the room of token 1
ShareMembers == {{}, Conns}

InitShare ==
    /\ \E members \in ShareMembers :
        /\ rooms = IF members = {} THEN EmptyRegistry
                   ELSE [r \in {RoomName("list", 1)} |-> members]
        /\ subscribed_rooms =
                [c \in Conns |-> IF c \in members THEN {RoomName("list", 1)} ELSE {}]
        /\ pc = [t \in Threads |-> IF t \in members THEN "recv" ELSE "idle"]
    /\ rooms_lock = NoThread
    /\ call = [t \in Threads |-> NoCall]
    /\ exitPath = [c \in Conns |-> "none"]
    /\ cleanups = [c \in Conns |-> 0]
    /\ resubscribed = [c \in Conns |-> {}]
    /\ StoreInit
    /\ merged = NoMerge
    /\ dmerge = NoDataMerge

NextShare ==
    \/ \E h \in ShareSyncThreads :
            \E d \in ShareClientDocs, ls \in ShareLastSynceds : SyncLoad(h, d, ls)
    \/ \E h \in ShareSyncThreads : SyncSave(h)
    \/ \E h \in ShareSyncThreads : SyncReturn(h)
    \/ \E h \in HttpThreads, share_type \in ShareTypes, token \in Tokens,
            updated_item \in SharedItems :
                UpdateLoad(h, share_type, token, updated_item)
    \/ \E h \in HttpThreads : UpdateSave(h)
    \/ \E h \in HttpThreads : BroadcastEnter(h)
    \/ \E h \in HttpThreads : BroadcastSend(h)
    \/ \E h \in HttpThreads : BroadcastReturn(h)

SpecShare == InitShare /\ [][NextShare]_vars

\* the sessions' subscribe and unsubscribe messages, followed by their
\* history, and the broadcasts of update_shared_item
NextSub ==
    \/ \E c \in Conns : Connect(c)
    \/ \E c \in Conns, room \in RoomIds : RecvSubscribeLogged(c, room)
    \/ \E c \in Conns, room \in RoomIds : RecvUnsubscribeLogged(c, room)
    \/ \E h \in HttpThreads, share_type \in ShareTypes, token \in Tokens,
            updated_item \in SharedItems :
                UpdateLoad(h, share_type, token, updated_item)
    \/ \E h \in HttpThreads : UpdateSave(h)
    \/ \E h \in HttpThreads : BroadcastEnter(h)
    \/ \E h \in HttpThreads : BroadcastSend(h)
    \/ \E h \in HttpThreads : BroadcastReturn(h)

SpecSub == Init /\ [][NextSub]_vars

\* sessions whose subscribe and unsubscribe messages name a room or none
RoomsOrNone == RoomIds \union {NoRoom}

NextNoRoom ==
    \/ \E c \in Conns : Connect(c)
    \/ \E c \in Conns, room \in RoomsOrNone : RecvSubscribe(c, room)
    \/ \E c \in Conns, room \in RoomsOrNone : RecvUnsubscribe(c, room)
    \/ \E c \in Conns : RecvNone(c)
    \/ \E c \in Conns : Cleanup(c)

SpecNoRoom == Init /\ [][NextNoRoom]_vars

\* merge_data as a function of its arguments
InitData ==
    /\ WsInit
    /\ StoreInit
    /\ merged = NoMerge
    /\ \E server \in DataServerDocs, client \in DataClientDocs :
            dmerge = DataMergeOf(server, client)

NextData == CallMergeData

SpecData == InitData /\ [][NextData]_vars

----------------------------------------------------------------------------
(* Properties of the registry, the relay and the sessions, under Spec *)

\* C1: an update is forwarded to the relay only when the sending session is
\* itself subscribed to the room it names: a broadcast made for a session's
\* update message sends to somebody only if the room is in that session's own
\* subscribed_rooms.
C1_UpdateOnlyFromSubscriber ==
    \A c \in Conns :
        (pc[c] = "sending" /\ \E x \in Conns : call[c].sent[x] > 0)
            => call[c].room \in subscribed_rooms[c]

\* C2: the registry never holds a room entry whose subscriber set is empty.
C2_NoEmptyRoom ==
    \A r \in DOMAIN rooms : rooms[r] # {}

\* C3: the disconnect cleanup runs exactly once per closed session, never for
\* an open one, and once it has run the session's handle is a member of no
\* room of the registry.
C3_CleanupOnceAndComplete ==
    \A c \in Conns :
        /\ cleanups[c] <= 1
        /\ (cleanups[c] = 1) <=> (pc[c] = "closed")
        /\ pc[c] = "closed" => \A r \in DOMAIN rooms : c \notin rooms[r]

\* a session that closed while subscribed to a room another session is still
\* a member of
C3_Witness ==
    \E c \in Conns :
        /\ pc[c] = "closed"
        /\ \E r \in subscribed_rooms[c] : r \in DOMAIN rooms /\ rooms[r] # {}

C5_NoSendAfterCleanup ==
    \A t \in Threads :
        pc[t] = "sending" =>
            /\ rooms_lock = t
            /\ \A c \in Conns :
                ( \/ call[t].sent[c] > 0
                  \/ (c \in call[t].todo /\ c # call[t].exclude) )
                    => cleanups[c] = 0

\* a broadcast delivering in a room that a session left by its cleanup
C5_Witness ==
    \E c \in Conns, t \in Threads :
        /\ cleanups[c] = 1
        /\ pc[t] = "sending"
        /\ call[t].room \in subscribed_rooms[c]
        /\ \E x \in Conns : call[t].sent[x] = 1

\* C9: a malformed message never ends the session: no session leaves its
\* receive loop because of a message that is no JSON object or whose data is
\* no object.
C9_MalformedNeverCloses ==
    \A c \in Conns : exitPath[c] \notin {"non_object", "bad_data"}

\* C10: a failed send is contained to its recipient: the failing member is
\* sent to once and not again, and every other member of the room is still
\* sent to (it has been, or the loop still has it to visit).
C10_SendFailureContained ==
    \A t \in Threads :
        (pc[t] = "sending" /\ call[t].failed # {}) =>
            /\ \A c \in call[t].failed :
                    call[t].sent[c] = 1 /\ c \notin call[t].todo
            /\ \A c \in call[t].members \ {call[t].exclude} :
                    c \in call[t].todo \/ call[t].sent[c] = 1

\* a finished send loop in which one send failed and another member was
\* still sent to
C10_Witness ==
    \E t \in Threads :
        /\ pc[t] = "sending"
        /\ call[t].todo = {}
        /\ call[t].failed # {}
        /\ \E c \in Conns : c \notin call[t].failed /\ call[t].sent[c] = 1

\* C19: for every session whose cleanup has not run, between its handling
\* steps, the local subscribed_rooms is exactly the set of rooms whose
\* registry entry holds the session's handle.
C19_LocalSetIsMembership ==
    \A c \in Conns :
        pc[c] # "closed" =>
            subscribed_rooms[c] = {r \in DOMAIN rooms : c \in rooms[r]}

\* two open sessions, one subscribed to a room and a member of it, the other
\* neither
C19_Witness ==
    \E c \in Conns, d \in Conns, r \in RoomIds :
        /\ pc[c] = "recv" /\ pc[d] = "recv"
        /\ r \in subscribed_rooms[c]
        /\ r \in DOMAIN rooms
        /\ c \in rooms[r]
        /\ r \notin subscribed_rooms[d]
        /\ d \notin rooms[r]

\* C14: update_shared_item broadcasts to the room and answers success only
\* when the token resolves for the type and the resolved item id is in the
\* stored document's collection; otherwise (unknown token, item id missing)
\* the request ends as not found, without a write and without a broadcast.
C14_SuccessOnlyIfItemExists ==
    \A h \in HttpThreads :
        pc[h] \in {"broadcast", "sending"} => put[h].found

----------------------------------------------------------------------------
(* Properties of subscribe, under SpecNoRoom and SpecSub *)

\* C15: a subscribe message without room (or with an empty one) registers
\* nothing: the registry has no entry for the missing room and no session
\* has it in its subscribed_rooms.
C15_NoRoomNoMembership ==
    /\ NoRoom \notin DOMAIN rooms
    /\ \A c \in Conns : NoRoom \notin subscribed_rooms[c]

\* C18: subscribe is idempotent: a subscribe to a room that is in the
\* session's subscribed_rooms changes neither the registry nor the local
\* set, and a broadcast to a room a session subscribed to more than once
\* sends to that session's handle once.
C18_SubscribeIdempotent ==
    /\ [][\A c \in Conns, room \in RoomIds :
            (room \in subscribed_rooms[c] /\ RecvSubscribeLogged(c, room)) =>
                (rooms' = rooms /\ subscribed_rooms' = subscribed_rooms)]_vars
    /\ [](\A t \in Threads, c \in Conns :
            ( /\ pc[t] = "sending"
              /\ call[t].room \in resubscribed[c]
              /\ c # call[t].exclude ) =>
                /\ call[t].sent[c] <= 1
                /\ call[t].todo = {} => call[t].sent[c] = 1)

\* a session subscribed twice to a room and a broadcast to that room has
\* finished its loop: the session's handle was sent to once
C18_Witness ==
    \E t \in Threads, c \in Conns :
        /\ pc[t] = "sending"
        /\ call[t].todo = {}
        /\ call[t].room \in resubscribed[c]
        /\ call[t].sent[c] = 1

----------------------------------------------------------------------------
(* Properties of the sync endpoint, under SpecSync *)

AllAnswered == \A h \in SyncThreads : req[h].phase = "done"

\* a document without its lastSynced stamp
Content(doc) == [doc EXCEPT !.lastSynced = Absent]

\* the row after request a and then request b ran one after the other on
\* row0, saving at the times ta <= tb
SerialRow(row0, a, b, ta, tb) ==
    LET ra == SyncMerged(row0.data, row0.updated_at,
                         req[a].client_data, req[a].last_synced, ta)
        row1 == IF ra.ok THEN [data |-> ra.doc, updated_at |-> ta] ELSE row0
        rb == SyncMerged(row1.data, row1.updated_at,
                         req[b].client_data, req[b].last_synced, tb)
    IN  IF rb.ok THEN [data |-> rb.doc, updated_at |-> tb] ELSE row1

\* the request carried a document and a lastSynced that is absent or parses
WellFormed(h) ==
    ~req[h].client_data.null /\ req[h].last_synced # Unparseable

\* C6: two overlapping sync requests lose no update: once both are answered
\* the stored document is what running them one after the other, in one of
\* the two orders, would have stored (stated for well-formed requests).
C6_NoLostUpdate ==
    (AllAnswered /\ \A h \in SyncThreads : WellFormed(h)) =>
        \E a \in SyncThreads, b \in SyncThreads :
            /\ a # b
            /\ \E ta \in InitTime..MaxClock, tb \in InitTime..MaxClock :
                /\ ta <= tb
                /\ Content(app_data) =
                        Content(SerialRow(initial, a, b, ta, tb).data)

\* C8: sync stores and returns the client's document as it came whenever
\* there is no server document or timestamp, the client's lastSynced is
\* absent, or serverUpdatedAt <= clientLastSynced; the field-wise merge runs
\* only when serverUpdatedAt is strictly greater than a present lastSynced.
C8_ClientVerbatimUnlessServerNewer ==
    \A h \in SyncThreads :
        req[h].phase = "done" =>
            LET r == req[h]
                verbatim ==
                    \/ r.server_data.null
                    \/ ~IsTime(r.server_updated_at)
                    \/ r.last_synced = Absent
                    \/ /\ IsTime(r.last_synced)
                       /\ r.server_updated_at <= r.last_synced
            IN  /\ verbatim =>
                    /\ r.branch = "client"
                    /\ r.ok
                    /\ r.response = r.client_data
                    /\ r.saved
                    /\ r.stored = r.client_data
                /\ r.branch = "merge" =>
                    /\ ~r.server_data.null
                    /\ IsTime(r.last_synced)
                    /\ r.server_updated_at > r.last_synced

\* merge(D, t, D, t): a request that submits the stored document with
\* lastSynced equal to the row's updated_at, and gets it back
C8_Witness ==
    \E h \in SyncThreads :
        /\ req[h].phase = "done"
        /\ req[h].client_data = req[h].server_data
        /\ req[h].client_data.lists # <<>>
        /\ req[h].last_synced = req[h].server_updated_at
        /\ req[h].response = req[h].client_data

----------------------------------------------------------------------------
(* Properties of the store and the shared items, under SpecShare *)

\* C13: the stored document's lists and recipes never hold two entries with
\* the same id, whatever syncs and shared-item updates ran before, the
\* submitted documents having no duplicate ids of their own.
C13_StoredIdsUnique ==
    ~app_data.null =>
        /\ DistinctIds(app_data.lists)
        /\ DistinctIds(app_data.recipes)

\* a sync went through the field-wise merge, an update found and replaced
\* its shared list, and the stored document holds two lists, one of them the
\* replaced one
C13_Witness ==
    /\ ~app_data.null
    /\ Len(app_data.lists) >= 2
    /\ \E i \in 1..Len(app_data.lists) : app_data.lists[i].v = 0
    /\ \E h \in ShareSyncThreads :
            req[h].phase = "done" /\ req[h].branch = "merge"
    /\ \E h \in HttpThreads : put[h].found

\* C20: no step of broadcast_to_room changes the registry (a room without
\* entry gets none, a member whose send failed stays), and no step of sync
\* or update_shared_item does, whether the request succeeds or fails.
C20_RegistryUntouched ==
    [][rooms' = rooms]_vars

\* a broadcast of update_shared_item ended with a failed send to a member
\* who is still a member, while a sync request was answered
C20_Witness ==
    /\ \E h \in HttpThreads :
        /\ pc[h] = "sending"
        /\ call[h].todo = {}
        /\ call[h].failed # {}
        /\ call[h].failed \subseteq rooms[call[h].room]
    /\ \E h \in ShareSyncThreads : req[h].phase = "done"

----------------------------------------------------------------------------
(* Properties of merge_lists and merge_recipes, under SpecMerge *)

\* every id on both sides carries a timestamp that parses
SharedIdsHaveTimes ==
    \A i \in 1..Len(merged.server), j \in 1..Len(merged.client) :
        merged.server[i].id = merged.client[j].id =>
            IsTime(merged.server[i].updatedAt) /\ IsTime(merged.client[j].updatedAt)

\* C7: for an id on both sides with valid timestamps the merged record is the
\* client's when client.updatedAt >= server.updatedAt (a tie included) and
\* the server's otherwise; merge_recipes does the same.
C7_LastWriteWinsTieToClient ==
    merged.fn # "none" =>
        /\ SharedIdsHaveTimes => merged.result.ok
        /\ merged.result.ok =>
            \A i \in 1..Len(merged.server), j \in 1..Len(merged.client) :
                ( /\ merged.server[i].id = merged.client[j].id
                  /\ IsTime(merged.server[i].updatedAt)
                  /\ IsTime(merged.client[j].updatedAt) ) =>
                    /\ DictHas(merged.result.val, merged.client[j].id)
                    /\ DictGet(merged.result.val, merged.client[j].id) =
                        IF merged.client[j].updatedAt >= merged.server[i].updatedAt
                        THEN merged.client[j]
                        ELSE merged.server[i]

\* a merge in which one id ties, and the client's record is in the result,
\* and another id is older on the client, and the server's record is
C7_Witness ==
    /\ merged.fn = "merge_lists"
    /\ merged.result.ok
    /\ \E i, k \in 1..Len(merged.server), j, l \in 1..Len(merged.client) :
        /\ merged.server[i].id = merged.client[j].id
        /\ merged.server[i].updatedAt = merged.client[j].updatedAt
        /\ IsTime(merged.client[j].updatedAt)
        /\ DictGet(merged.result.val, merged.client[j].id) = merged.client[j]
        /\ merged.server[k].id = merged.client[l].id
        /\ IsTime(merged.client[l].updatedAt)
        /\ merged.server[k].updatedAt > merged.client[l].updatedAt
        /\ DictGet(merged.result.val, merged.client[l].id) = merged.server[k]

\* C12: a record whose updatedAt is absent or does not parse counts as older
\* than any record with a valid timestamp: when an id is on both sides and
\* one of the two records has no valid updatedAt, the merge completes and
\* the record with the valid timestamp is the one in the result.
C12_InvalidTimestampIsOldest ==
    merged.fn # "none" =>
        \A i \in 1..Len(merged.server), j \in 1..Len(merged.client) :
            ( /\ merged.server[i].id = merged.client[j].id
              /\ IsTime(merged.server[i].updatedAt)
                    # IsTime(merged.client[j].updatedAt) ) =>
                /\ merged.result.ok
                /\ DictHas(merged.result.val, merged.client[j].id)
                /\ DictGet(merged.result.val, merged.client[j].id) =
                        IF IsTime(merged.client[j].updatedAt)
                        THEN merged.client[j]
                        ELSE merged.server[i]

\* the ids of a collection, in its order
IdsOf(l) == [i \in 1..Len(l) |-> l[i].id]

\* the client's records whose id the server does not have, in the client's order
ClientOnly == SelectSeq(merged.client, LAMBDA r : ~DictHas(merged.server, r.id))

\* C16: the ids of the merged collection are the server's ids in the server's
\* order followed by the client-only ids in the client's order (so the id set
\* is the union and no server-only entry is dropped); each position holds the
\* server's or the client's record of that id, a server-only or client-only
\* id its only record.
C16_MergeOrderAndUnion ==
    (merged.fn # "none" /\ merged.result.ok) =>
        LET out == merged.result.val
        IN  /\ IdsOf(out) = IdsOf(merged.server) \o IdsOf(ClientOnly)
            /\ \A i \in 1..Len(merged.server) :
                    \/ out[i] = merged.server[i]
                    \/ /\ DictHas(merged.client, out[i].id)
                       /\ out[i] = DictGet(merged.client, out[i].id)
            /\ \A k \in 1..Len(ClientOnly) :
                    out[Len(merged.server) + k] = ClientOnly[k]

\* the client lists a new id before an id the server has and wins that one:
\* the result has the server's id first, holding the client's record, and the
\* new id after it
C16_Witness ==
    /\ merged.fn = "merge_lists"
    /\ merged.result.ok
    /\ Len(merged.server) = 1
    /\ Len(merged.client) = 2
    /\ merged.client[2].id = merged.server[1].id
    /\ merged.result.val = <<merged.client[2], merged.client[1]>>

----------------------------------------------------------------------------
(* Properties of merge_data, under SpecData *)

\* C11: the merged categories are the client's list when the client supplied
\* a non-empty list, and the server's list otherwise, also when the client
\* supplied an empty list or no categories field.
C11_CategoriesClientIfNonEmpty ==
    (dmerge.called /\ dmerge.result.ok) =>
        dmerge.result.doc.categories.val =
            IF dmerge.client.categories.has /\ dmerge.client.categories.val # <<>>
            THEN dmerge.client.categories.val
            ELSE dmerge.server.categories.val

\* the entries of a sequence
Entries(seq) == {seq[i] : i \in 1..Len(seq)}
\* where an entry first occurs in a sequence
FirstAt(seq, e) ==
    LET at == {i \in 1..Len(seq) : seq[i] = e}
    IN  CHOOSE i \in at : \A k \in at : i <= k

\* C17: the merged itemHistory holds entries of the server's history followed
\* by the client's, without duplicates, in the order of their first
\* occurrence; its length is min(500, number of distinct entries); when it
\* is truncated the entries dropped are the earliest ones.
C17_HistoryDedupCapTail ==
    (dmerge.called /\ dmerge.result.ok) =>
        LET all == dmerge.server.itemHistory \o dmerge.client.itemHistory
            out == dmerge.result.doc.itemHistory
        IN  /\ Entries(out) \subseteq Entries(all)
            /\ Cardinality(Entries(out)) = Len(out)
            /\ Len(out) = IF Cardinality(Entries(all)) <= HistoryCap
                          THEN Cardinality(Entries(all))
                          ELSE HistoryCap
            /\ \A i \in 1..(Len(out) - 1) :
                    FirstAt(all, out[i]) < FirstAt(all, out[i + 1])
            /\ \A e \in Entries(all) \ Entries(out) :
                    FirstAt(all, e) < FirstAt(all, out[1])

\* the client repeats the server's last entry and adds new ones, more than
\* the cap holds: the result ends with the client's last entry and has lost
\* the server's first
C17_Witness ==
    /\ dmerge.called
    /\ dmerge.result.ok
    /\ Len(dmerge.server.itemHistory) = HistoryCap
    /\ LET all == dmerge.server.itemHistory \o dmerge.client.itemHistory
           out == dmerge.result.doc.itemHistory
       IN  /\ Len(all) > Cardinality(Entries(all))
           /\ Cardinality(Entries(all)) > HistoryCap
           /\ Len(out) = HistoryCap
           /\ out[Len(out)] = all[Len(all)]
           /\ all[1] \notin Entries(out)

====
